---- MODULE Spec2Model ----
(***************************************************************************)
(* Model of the two ruamel.yaml helper scripts of dbt-lint-yaml:           *)
(*   scripts/ruamel_model_changes.py    batch description updates          *)
(*   scripts/ruamel_normalize_layout.py relocation of a model's YAML block *)
(*                                                                         *)
(* A YAML document is modelled by the keys the scripts read: the `models`  *)
(* sequence (with its presence), the `sources` key and whether any other   *)
(* top-level key exists.  Comments, quoting and indentation are opaque to  *)
(* the scripts and are not modelled.  The layout script runs on a file     *)
(* system where two paths may lead to one file.                            *)
(***************************************************************************)
EXTENDS Integers, Sequences, FiniteSets, TLC

(***************************************************************************)
(* Values                                                                  *)
(***************************************************************************)
Absent == "absent"      \* the key is not in the mapping
Null == "null"          \* JSON null / Python None
Empty == "empty"        \* a key holding null or an empty sequence
NonEmpty == "nonempty"  \* a key holding a non-empty sequence

ModelNames == {"m1", "m2"}
ColumnNames == {"c1", "c2"}

\* Bounds of the explored inputs.
MaxDocSize == 2     \* records (models + columns) in a file of the update script
MaxReqSize == 4     \* entries + column edits + model_description keys of a payload
MaxDiskSize == 3    \* model records + top-level keys in the files of the layout script

EmptyDoc == [hasModels |-> FALSE, models |-> <<>>, sources |-> Absent, other |-> FALSE]
NoFile == [exists |-> FALSE, doc |-> EmptyDoc]

\* dict.get(key): an absent key reads as None.
Get(value) == IF value = Absent THEN Null ELSE value

\* Index of the first entry of seq whose name is `name`, 0 when there is none
\* (the `for entry in ...: if entry.get("name") == name` loops).
FirstIndex(seq, name) ==
    IF \E i \in DOMAIN seq : seq[i].name = name
    THEN CHOOSE i \in DOMAIN seq :
            /\ seq[i].name = name
            /\ \A j \in 1..(i - 1) : seq[j].name # name
    ELSE 0

(***************************************************************************)
(* scripts/ruamel_model_changes.py                                         *)
(***************************************************************************)

\* A find_model that falls back to the first record instead of raising.
find_model_or_first(models, model_name) ==
    IF FirstIndex(models, model_name) = 0 /\ models # <<>>
    THEN 1
    ELSE FirstIndex(models, model_name)

\* find_model: index of the model, 0 stands for the raised PatchError.
find_model(models, model_name) == FirstIndex(models, model_name)

\* ensure_column: the columns sequence, with a bare record appended when no
\* record has the name.
ensure_column(columns, column_name) ==
    IF FirstIndex(columns, column_name) # 0
    THEN columns
    ELSE Append(columns, [name |-> column_name, description |-> Absent])

\* An iteration that sets a non-null description without comparing it with
\* the current one.
ApplyChangeAlwaysReports(st, change) ==
    IF change.column_name = ""
    THEN st
    ELSE LET cols == ensure_column(st.columns, change.column_name)
             i == FirstIndex(cols, change.column_name)
         IN IF change.new_description = Null
            THEN IF cols[i].description # Absent
                 THEN [columns |-> [cols EXCEPT ![i].description = Absent],
                       updated |-> Append(st.updated, change.column_name)]
                 ELSE [columns |-> cols, updated |-> st.updated]
            ELSE [columns |-> [cols EXCEPT ![i].description = change.new_description],
                  updated |-> Append(st.updated, change.column_name)]

\* An iteration that reports a null edit even when there is no description
\* to remove.
ApplyChangeReportsNull(st, change) ==
    IF change.column_name = ""
    THEN st
    ELSE LET cols == ensure_column(st.columns, change.column_name)
             i == FirstIndex(cols, change.column_name)
         IN IF change.new_description = Null
            THEN [columns |-> [cols EXCEPT ![i].description = Absent],
                  updated |-> Append(st.updated, change.column_name)]
            ELSE IF Get(cols[i].description) # change.new_description
                 THEN [columns |-> [cols EXCEPT ![i].description = change.new_description],
                       updated |-> Append(st.updated, change.column_name)]
                 ELSE [columns |-> cols, updated |-> st.updated]

\* One iteration of the `for change in column_changes` loop.
\* st = [columns, updated].
ApplyChange(st, change) ==
    IF change.column_name = ""
    THEN st
    ELSE LET cols == ensure_column(st.columns, change.column_name)
             i == FirstIndex(cols, change.column_name)
         IN IF change.new_description = Null
            THEN IF cols[i].description # Absent
                 THEN [columns |-> [cols EXCEPT ![i].description = Absent],
                       updated |-> Append(st.updated, change.column_name)]
                 ELSE [columns |-> cols, updated |-> st.updated]
            ELSE IF Get(cols[i].description) # change.new_description
                 THEN [columns |-> [cols EXCEPT ![i].description = change.new_description],
                       updated |-> Append(st.updated, change.column_name)]
                 ELSE [columns |-> cols, updated |-> st.updated]

RECURSIVE ApplyChanges(_, _)
ApplyChanges(st, changes) ==
    IF changes = <<>>
    THEN st
    ELSE ApplyChanges(ApplyChange(st, Head(changes)), Tail(changes))

\* The model-description branch of apply_model_update.
ApplyModelDescription(model, model_update) ==
    IF ~model_update.has_model_description
    THEN model
    ELSE IF model_update.model_description = Null
         THEN [model EXCEPT !.description = Absent]
         ELSE IF Get(model.description) # model_update.model_description
              THEN [model EXCEPT !.description = model_update.model_description]
              ELSE model

\* apply_model_update on the loaded document.  error stands for the
\* PatchError of find_model; document is the document as left in memory.
apply_model_update(document, model_update) ==
    IF model_update.column_changes = <<>> /\ ~model_update.has_model_description
    THEN [error |-> FALSE, document |-> document, updated_columns |-> <<>>]
    ELSE LET models == document.models
             i == find_model(models, model_update.model_name)
         IN IF i = 0
            THEN [error |-> TRUE, document |-> document, updated_columns |-> <<>>]
            ELSE LET withColumns == [models[i] EXCEPT !.hasColumns = TRUE]
                     described == ApplyModelDescription(withColumns, model_update)
                     st == ApplyChanges([columns |-> described.columns, updated |-> <<>>],
                                        model_update.column_changes)
                     model == [described EXCEPT !.columns = st.columns]
                 IN [error |-> FALSE,
                     document |-> [document EXCEPT !.models[i] = model],
                     updated_columns |-> st.updated]

\* The `for model_update in model_updates` loop of apply_updates.
\* acc = [error, document, results, file_mutated].
RECURSIVE ProcessUpdates(_, _)
ProcessUpdates(acc, model_updates) ==
    IF model_updates = <<>> \/ acc.error
    THEN acc
    ELSE LET r == apply_model_update(acc.document, Head(model_updates))
             next ==
                IF r.error
                THEN [acc EXCEPT !.error = TRUE]
                ELSE IF r.updated_columns # <<>>
                     THEN [error |-> FALSE,
                           document |-> r.document,
                           results |-> (Head(model_updates).model_name :> r.updated_columns)
                                        @@ acc.results,
                           file_mutated |-> TRUE]
                     ELSE [acc EXCEPT !.document = r.document]
         IN ProcessUpdates(next, Tail(model_updates))

\* A check that takes a missing file for an empty document.
path_exists_or_empty(f) == TRUE

\* patch_path.exists()
path_exists(f) == f.exists

\* apply_updates followed by main's reporting.  Returns the file as left on
\* disk, the exit code, the results written to stdout (has_response tells
\* whether a response was produced), the number of writes of the file and
\* the document as left in memory.
apply_updates(file, payload) ==
    IF payload.models = <<>>
    THEN [file |-> file, exit_code |-> 0, has_response |-> TRUE, results |-> <<>>,
          writes |-> 0, document |-> file.doc]
    ELSE IF ~path_exists(file)
         THEN [file |-> file, exit_code |-> 1, has_response |-> FALSE, results |-> <<>>,
               writes |-> 0, document |-> file.doc]
         ELSE LET acc == ProcessUpdates([error |-> FALSE, document |-> file.doc,
                                         results |-> <<>>, file_mutated |-> FALSE],
                                        payload.models)
              IN IF acc.error
                 THEN [file |-> file, exit_code |-> 1, has_response |-> FALSE,
                       results |-> <<>>, writes |-> 0, document |-> acc.document]
                 ELSE IF acc.file_mutated
                      THEN [file |-> [exists |-> TRUE, doc |-> acc.document],
                            exit_code |-> 0, has_response |-> TRUE,
                            results |-> acc.results, writes |-> 1,
                            document |-> acc.document]
                      ELSE [file |-> file, exit_code |-> 0, has_response |-> TRUE,
                            results |-> acc.results, writes |-> 0,
                            document |-> acc.document]

(***************************************************************************)
(* Inputs of the update script                                             *)
(***************************************************************************)
RECURSIVE SeqsUpTo(_, _)
SeqsUpTo(S, n) ==
    IF n = 0
    THEN {<<>>}
    ELSE LET shorter == SeqsUpTo(S, n - 1)
         IN shorter \cup {Append(s, x) : s \in {t \in shorter : Len(t) = n - 1}, x \in S}

ColumnRecords == [name : ColumnNames, description : {Absent, "d2"}]

ModelRecords(maxCols) ==
    {[name |-> n, description |-> d, hasColumns |-> cols # <<>>, columns |-> cols] :
        n \in ModelNames, d \in {Absent, "d2"}, cols \in SeqsUpTo(ColumnRecords, maxCols)}

ModelSize(m) == 1 + Len(m.columns)

\* Sequences of model records holding at most `budget` model and column records.
RECURSIVE ModelSeqs(_)
ModelSeqs(budget) ==
    IF budget = 0
    THEN {<<>>}
    ELSE {<<>>} \cup
         UNION {{<<m>> \o rest : rest \in ModelSeqs(budget - ModelSize(m))} :
                    m \in ModelRecords(budget - 1)}

\* Files of the update script: missing, or a document with at most
\* MaxDocSize model and column records.
UpdateFiles ==
    {NoFile} \cup
    {[exists |-> TRUE,
      doc |-> [hasModels |-> ms # <<>>, models |-> ms, sources |-> Absent, other |-> FALSE]] :
        ms \in ModelSeqs(MaxDocSize)}

Changes == [column_name : ColumnNames, new_description : {Null, "d1"}]

ModelUpdates(maxChanges) ==
    {[model_name |-> n, column_changes |-> cs,
      has_model_description |-> md # Absent,
      model_description |-> md] :
        n \in ModelNames, cs \in SeqsUpTo(Changes, maxChanges), md \in {Absent, Null, "d1"}}

UpdateSize(u) ==
    1 + Len(u.column_changes) + (IF u.has_model_description THEN 1 ELSE 0)

\* Batches whose entries, column edits and model_description keys number at
\* most `budget`.
RECURSIVE UpdateSeqs(_)
UpdateSeqs(budget) ==
    IF budget = 0
    THEN {<<>>}
    ELSE {<<>>} \cup
         UNION {{<<u>> \o rest : rest \in UpdateSeqs(budget - UpdateSize(u))} :
                    u \in {v \in ModelUpdates(budget - 1) : UpdateSize(v) <= budget}}

Payloads == {[models |-> us] : us \in UpdateSeqs(MaxReqSize)}


\* Model and column names are only ever compared for equality, so one
\* representative of each renaming class is explored: the first model name
\* and the first column name met in the file and then in the payload are the
\* first of their sets.
RECURSIVE FileColumnNames(_)
FileColumnNames(models) ==
    IF models = <<>>
    THEN <<>>
    ELSE [i \in DOMAIN Head(models).columns |-> Head(models).columns[i].name]
            \o FileColumnNames(Tail(models))

RECURSIVE PayloadColumnNames(_)
PayloadColumnNames(updates) ==
    IF updates = <<>>
    THEN <<>>
    ELSE [i \in DOMAIN Head(updates).column_changes |->
                Head(updates).column_changes[i].column_name]
            \o PayloadColumnNames(Tail(updates))

Canonical(f, p) ==
    LET modelNames == [i \in DOMAIN f.doc.models |-> f.doc.models[i].name]
                        \o [i \in DOMAIN p.models |-> p.models[i].model_name]
        columnNames == FileColumnNames(f.doc.models) \o PayloadColumnNames(p.models)
    IN /\ modelNames # <<>> => Head(modelNames) = "m1"
       /\ columnNames # <<>> => Head(columnNames) = "c1"

(***************************************************************************)
(* scripts/ruamel_normalize_layout.py                                      *)
(***************************************************************************)
RemoveAt(seq, i) == SubSeq(seq, 1, i - 1) \o SubSeq(seq, i + 1, Len(seq))

(***************************************************************************)
(* The file system under the pathlib calls of the script.  A directory     *)
(* entry is missing, a regular file (an inode, which two entries may share *)
(* as hard links) or a symbolic link to another entry.  A path string      *)
(* names a directory entry; two strings may name one entry.                *)
(***************************************************************************)
Names == {"A.yml", "B.yml", "L.yml"}

\* Path strings of a request: "sub/../A.yml" is another spelling of "A.yml"
\* (pathlib does not collapse `..`; the directory sub exists).
Paths == Names \cup {"sub/../A.yml"}

Inodes == 1..3

NoEntry == [kind |-> "none", inode |-> 0, target |-> ""]
FileEntry(i) == [kind |-> "file", inode |-> i, target |-> ""]
LinkEntry(name) == [kind |-> "link", inode |-> 0, target |-> name]

\* The bytes of a file as the script reads them: the document they parse to,
\* or torn (a dump cut short).  A file of 0 bytes loads as the empty mapping.
NoData == [doc |-> EmptyDoc, torn |-> FALSE]
Whole(doc) == [doc |-> doc, torn |-> FALSE]
TornData == [doc |-> EmptyDoc, torn |-> TRUE]

\* The directory entry named by a path string.
Name(path) == IF path = "sub/../A.yml" THEN "A.yml" ELSE path

\* The inode a path leads to, following a symbolic link; 0 when there is
\* none (missing entry or dangling link).
Resolve(d, path) ==
    LET e == d.dir[Name(path)]
    IN IF e.kind = "file"
       THEN e.inode
       ELSE IF e.kind = "link" /\ d.dir[e.target].kind = "file"
            THEN d.dir[e.target].inode
            ELSE 0

\* Path.exists()
exists(d, path) == Resolve(d, path) # 0

\* The data of inodes that no entry names any more is gone.
InUse(d, inode) == \E name \in Names : d.dir[name] = FileEntry(inode)

\* The disk with one directory entry, or the data of one inode, replaced.
SetEntry(d, name, entry) ==
    [dir |-> [n \in Names |-> IF n = name THEN entry ELSE d.dir[n]], data |-> d.data]
SetData(d, inode, bytes) ==
    [dir |-> d.dir, data |-> [i \in Inodes |-> IF i = inode THEN bytes ELSE d.data[i]]]

Collect(d) ==
    [dir |-> d.dir,
     data |-> [i \in Inodes |-> IF InUse(d, i) THEN d.data[i] ELSE NoData]]

\* Path.unlink(): removes the entry itself, also when it is a symbolic link.
unlink(d, path) == Collect(SetEntry(d, Name(path), NoEntry))

\* Path.open("w"): truncates the file the path leads to, or creates it (at
\* the target of a dangling symbolic link).
open_w(d, path) ==
    IF exists(d, path)
    THEN SetData(d, Resolve(d, path), NoData)
    ELSE LET e == d.dir[Name(path)]
             n == IF e.kind = "link" THEN e.target ELSE Name(path)
             i == CHOOSE k \in Inodes :
                    ~InUse(d, k) /\ \A j \in 1..(k - 1) : InUse(d, j)
         IN SetData(SetEntry(d, n, FileEntry(i)), i, NoData)

\* yaml.dump(doc, handle) completed on the opened file.
dump(d, path, doc) == SetData(d, Resolve(d, path), Whole(doc))

\* What a reader finds at a path.
At(d, path) ==
    IF exists(d, path)
    THEN [exists |-> TRUE, doc |-> d.data[Resolve(d, path)].doc,
          torn |-> d.data[Resolve(d, path)].torn]
    ELSE [exists |-> FALSE, doc |-> EmptyDoc, torn |-> FALSE]

\* load_document: a missing file loads as a fresh empty mapping, and so does
\* an empty one.
load_document(d, path) == IF exists(d, path) THEN d.data[Resolve(d, path)].doc ELSE EmptyDoc

\* ensure_model_sequence: creates the `models` key when it is missing.
ensure_model_sequence(doc) ==
    IF doc.hasModels THEN doc ELSE [doc EXCEPT !.hasModels = TRUE, !.models = <<>>]

\* A remove_model that hands back a bare record instead of raising.
remove_model_lenient(doc, model_name) ==
    LET d == ensure_model_sequence(doc)
        i == FirstIndex(d.models, model_name)
    IN IF i = 0
       THEN [error |-> FALSE, doc |-> d,
             model |-> <<[name |-> model_name, description |-> Absent,
                          hasColumns |-> FALSE, columns |-> <<>>]>>]
       ELSE LET rest == RemoveAt(d.models, i)
            IN [error |-> FALSE,
                doc |-> IF rest = <<>>
                        THEN [d EXCEPT !.hasModels = FALSE, !.models = <<>>]
                        ELSE [d EXCEPT !.models = rest],
                model |-> <<d.models[i]>>]

\* remove_model: pops the first record with the name; error stands for the
\* raised LayoutError.
remove_model(doc, model_name) ==
    LET d == ensure_model_sequence(doc)
        i == FirstIndex(d.models, model_name)
    IN IF i = 0
       THEN [error |-> TRUE, doc |-> d, model |-> <<>>]
       ELSE LET rest == RemoveAt(d.models, i)
            IN [error |-> FALSE,
                doc |-> IF rest = <<>>
                        THEN [d EXCEPT !.hasModels = FALSE, !.models = <<>>]
                        ELSE [d EXCEPT !.models = rest],
                model |-> <<d.models[i]>>]

\* An upsert_model that always appends.
upsert_model_appends(doc, model, model_name) ==
    LET d == ensure_model_sequence(doc)
    IN [d EXCEPT !.models = Append(@, model)]

\* upsert_model: replaces the first record with the name, appends otherwise.
upsert_model(doc, model, model_name) ==
    LET d == ensure_model_sequence(doc)
        i == FirstIndex(d.models, model_name)
    IN IF i # 0
       THEN [d EXCEPT !.models[i] = model]
       ELSE [d EXCEPT !.models = Append(@, model)]

document_is_empty(doc) ==
    LET models_empty == ~doc.hasModels \/ doc.models = <<>>
        sources_empty == doc.sources \in {Absent, Empty}
    IN models_empty /\ sources_empty /\ ~doc.other

\* A write_or_remove that writes empty documents too.
write_always(d, path, doc) == dump(open_w(d, path), path, doc)

\* write_or_remove run to its end: the disk after the call.
write_or_remove(d, path, doc) ==
    IF document_is_empty(doc)
    THEN IF exists(d, path) THEN unlink(d, path) ELSE d
    ELSE dump(open_w(d, path), path, doc)

\* normalize_to_directory up to the two write_or_remove calls: "error" is the
\* raised LayoutError, "same" the early `return False`, "move" the case that
\* goes on to the file operations with the two documents in memory.  The two
\* documents are loaded separately, also when both paths lead to one file.
normalize_to_directory(d, req) ==
    IF ~exists(d, req.current_patch)
    THEN [status |-> "error", source_doc |-> EmptyDoc, target_doc |-> EmptyDoc]
    ELSE IF req.current_patch = req.expected_patch
         THEN [status |-> "same", source_doc |-> EmptyDoc, target_doc |-> EmptyDoc]
         ELSE LET removed == remove_model(load_document(d, req.current_patch),
                                          req.model_name)
              IN IF removed.error
                 THEN [status |-> "error", source_doc |-> EmptyDoc,
                       target_doc |-> EmptyDoc]
                 ELSE [status |-> "move",
                       source_doc |-> removed.doc,
                       target_doc |-> upsert_model(load_document(d, req.expected_patch),
                                                   removed.model[1], req.model_name)]

\* The two file operations with the expected path first.
FileOpsExpectedFirst(req, source_doc, target_doc) ==
    <<[path |-> req.expected_patch, doc |-> target_doc],
      [path |-> req.current_patch, doc |-> source_doc]>>

\* The two file operations that end normalize_to_directory, in order.
FileOps(req, source_doc, target_doc) ==
    <<[path |-> req.current_patch, doc |-> source_doc],
      [path |-> req.expected_patch, doc |-> target_doc]>>

\* A write_or_remove call up to its first change of the disk: the unlink of
\* an empty document's file, or the open("w") that truncates or creates.
BeginOp(d, op) ==
    IF document_is_empty(op.doc)
    THEN write_or_remove(d, op.path, op.doc)
    ELSE open_w(d, op.path)

\* The call goes on to yaml.dump.
Dumps(op) == ~document_is_empty(op.doc)

\* One write_or_remove call on the disk.
ApplyOp(d, op) == write_or_remove(d, op.path, op.doc)

\* The file the call is writing, as a kill during yaml.dump can leave it:
\* still of 0 bytes, or holding the part of the text already flushed.
Interrupted(d, op) == {d, SetData(d, Resolve(d, op.path), TornData)}

(***************************************************************************)
(* Inputs of the layout script                                             *)
(***************************************************************************)
LayoutRecords ==
    {[name |-> n, description |-> d, hasColumns |-> FALSE, columns |-> <<>>] :
        n \in ModelNames, d \in {Absent, "d2"}}

FileSize(f) ==
    Len(f.doc.models) + (IF f.doc.sources # Absent THEN 1 ELSE 0)
                      + (IF f.doc.other THEN 1 ELSE 0)

LayoutFiles ==
    {NoFile} \cup
    {f \in {[exists |-> TRUE,
             doc |-> [hasModels |-> ms # <<>>, models |-> ms, sources |-> s, other |-> o]] :
                ms \in SeqsUpTo(LayoutRecords, MaxDiskSize),
                s \in {Absent, Empty, NonEmpty}, o \in BOOLEAN} :
        FileSize(f) <= MaxDiskSize}

\* The disk with file a at A.yml and file b at B.yml; with hard, B.yml is a
\* second name of the file at A.yml; with link, L.yml is a symbolic link to
\* A.yml.
MakeDisk(a, b, hard, link) ==
    [dir |-> [n \in Names |->
                IF n = "A.yml" THEN (IF a.exists THEN FileEntry(1) ELSE NoEntry)
                ELSE IF n = "B.yml"
                     THEN (IF hard THEN FileEntry(1)
                           ELSE IF b.exists THEN FileEntry(2) ELSE NoEntry)
                     ELSE (IF link THEN LinkEntry("A.yml") ELSE NoEntry)],
     data |-> [i \in Inodes |->
                IF i = 1 /\ a.exists THEN Whole(a.doc)
                ELSE IF i = 2 /\ b.exists /\ ~hard THEN Whole(b.doc)
                ELSE NoData]]

LayoutDisks ==
    {MakeDisk(ab[1], ab[2], FALSE, link) :
        ab \in {x \in LayoutFiles \X LayoutFiles : FileSize(x[1]) + FileSize(x[2]) <= MaxDiskSize},
        link \in BOOLEAN}
    \cup {MakeDisk(a, NoFile, TRUE, link) : a \in LayoutFiles \ {NoFile}, link \in BOOLEAN}

Requests == [current_patch : Paths, expected_patch : Paths, model_name : ModelNames]

Reverse(req) ==
    [req EXCEPT !.current_patch = req.expected_patch, !.expected_patch = req.current_patch]

\* The script compares model names for equality only: the requested model
\* is called m1, any other model m2.
LayoutCanonical(req) == req.model_name = "m1"

(***************************************************************************)
(* State                                                                   *)
(***************************************************************************)
VARIABLES
    \* ruamel_model_changes.py
    file,       \* the YAML file at patch_path
    payload,    \* the JSON payload on stdin
    phase,      \* "start", "applied" (run once), "reapplied" (run twice)
    file0,      \* the file before the first invocation
    before,     \* the file before the last invocation
    out,        \* outcome of the last invocation
    \* ruamel_normalize_layout.py
    disk,       \* the file system: directory entries and file data
    request,    \* the JSON request on stdin
    pc,         \* position of the running invocation
    call,       \* 1: the request, 2: the reverse request
    memory,     \* source_doc and target_doc of the running invocation
    started,    \* the disk when the running invocation started
    disk0,      \* the disk before the first invocation
    result      \* what the invocation has put out so far, and its exit code

updateVars == <<file, payload, phase, file0, before, out>>
layoutVars == <<disk, request, pc, call, memory, started, disk0, result>>
vars == <<file, payload, phase, file0, before, out,
          disk, request, pc, call, memory, started, disk0, result>>

NoOutcome == [exit_code |-> 0, has_response |-> FALSE, results |-> <<>>, writes |-> 0,
              document |-> EmptyDoc]
NoMemory == [status |-> "none", source_doc |-> EmptyDoc, target_doc |-> EmptyDoc]
\* A process that has written nothing and has not exited (exit code -1).
NoResult == [exit_code |-> -1, has_response |-> FALSE, mutated |-> FALSE,
             has_error |-> FALSE, partial_response |-> FALSE, partial_error |-> FALSE]
NoDisk == MakeDisk(NoFile, NoFile, FALSE, FALSE)
NoRequest == [current_patch |-> "A.yml", expected_patch |-> "A.yml", model_name |-> "m1"]

UpdateIdle ==
    /\ file = NoFile
    /\ payload = [models |-> <<>>]
    /\ phase = "off"
    /\ file0 = NoFile
    /\ before = NoFile
    /\ out = NoOutcome

LayoutIdle ==
    /\ disk = NoDisk
    /\ request = NoRequest
    /\ pc = "off"
    /\ call = 0
    /\ memory = NoMemory
    /\ started = NoDisk
    /\ disk0 = NoDisk
    /\ result = NoResult

(***************************************************************************)
(* ruamel_model_changes.py: the script run once, then once more with the   *)
(* same payload on the file it left.                                       *)
(***************************************************************************)
Init ==
    /\ file \in UpdateFiles
    /\ payload \in Payloads
    /\ Canonical(file, payload)
    /\ phase = "start"
    /\ file0 = file
    /\ before = file
    /\ out = NoOutcome
    /\ LayoutIdle

\* One invocation of the script: main() with apply_updates.
Main ==
    /\ phase \in {"start", "applied"}
    /\ LET r == apply_updates(file, payload)
       IN /\ file' = r.file
          /\ out' = [exit_code |-> r.exit_code, has_response |-> r.has_response,
                     results |-> r.results, writes |-> r.writes, document |-> r.document]
    /\ before' = file
    /\ phase' = IF phase = "start" THEN "applied" ELSE "reapplied"
    /\ UNCHANGED <<payload, file0>>
    /\ UNCHANGED layoutVars

Next == Main

Spec == Init /\ [][Next]_vars

(***************************************************************************)
(* Properties of ruamel_model_changes.py                                   *)
(***************************************************************************)
Entries == DOMAIN payload.models

\* The payload cut just before column edit j of entry i.
CutBefore(p, i, j) ==
    [models |-> Append(SubSeq(p.models, 1, i - 1),
                       [p.models[i] EXCEPT !.column_changes = SubSeq(@, 1, j - 1)])]

\* The document in memory when entry i starts, and when its column edit j starts.
MemoryAtEntry(f, p, i) == apply_updates(f, [models |-> SubSeq(p.models, 1, i - 1)]).document
MemoryAtChange(f, p, i, j) == apply_updates(f, CutBefore(p, i, j)).document

\* An entry that is not the documented no-op (no column change, no
\* model_description key).
Effective(u) == u.column_changes # <<>> \/ u.has_model_description

Finished == phase \in {"applied", "reapplied"}

\* Entry i changes the description of its model in memory.
ModelDescriptionMutated(f, p, i) ==
    LET u == p.models[i]
        doc == MemoryAtEntry(f, p, i)
        k == FirstIndex(doc.models, u.model_name)
    IN /\ u.has_model_description
       /\ k # 0
       /\ IF u.model_description = Null
          THEN doc.models[k].description # Absent
          ELSE doc.models[k].description # u.model_description

\* The columns entry i changes, in request order.
ChangedByEntry(f, p, i) ==
    apply_model_update(MemoryAtEntry(f, p, i), p.models[i]).updated_columns

RECURSIVE ChangedColumnsUpTo(_, _, _, _)
ChangedColumnsUpTo(f, p, name, i) ==
    IF i = 0
    THEN <<>>
    ELSE ChangedColumnsUpTo(f, p, name, i - 1)
            \o (IF p.models[i].model_name = name THEN ChangedByEntry(f, p, i) ELSE <<>>)

ChangedColumns(f, p, name) == ChangedColumnsUpTo(f, p, name, Len(p.models))

ResponseOf(name) == IF name \in DOMAIN out.results THEN out.results[name] ELSE <<>>

\* C1: a successful invocation writes the file exactly when a field changed:
\* some column description changed or some model description was mutated.
C1_WrittenIffChanged ==
    (Finished /\ out.exit_code = 0) =>
        ((out.writes = 1) <=>
            (\E i \in Entries :
                \/ ChangedByEntry(before, payload, i) # <<>>
                \/ ModelDescriptionMutated(before, payload, i)))

\* No two column edits of the payload name the same column of the same model
\* with different new descriptions.
NoConflictingEdits ==
    \A i1, i2 \in Entries :
        payload.models[i1].model_name = payload.models[i2].model_name =>
            \A j1 \in DOMAIN payload.models[i1].column_changes,
               j2 \in DOMAIN payload.models[i2].column_changes :
                LET c1 == payload.models[i1].column_changes[j1]
                    c2 == payload.models[i2].column_changes[j2]
                IN c1.column_name = c2.column_name => c1.new_description = c2.new_description

\* C2 as claimed: the second run of any payload writes nothing and reports
\* no updated column.
C2_SecondRunIdle ==
    phase = "reapplied" => (out.writes = 0 /\ out.results = <<>>)

\* C2 amended: the second run writes nothing, leaves the file alone and
\* reports no updated column, provided no two edits of the payload give one
\* column of one model different descriptions.
C2_SecondRunIdleWithoutConflicts ==
    (phase = "reapplied" /\ NoConflictingEdits) =>
        (out.writes = 0 /\ out.results = <<>> /\ file = before)

\* The first run changed the file and the payload has no conflicting edits.
C2_Witness ==
    /\ phase = "reapplied"
    /\ NoConflictingEdits
    /\ out.exit_code = 0
    /\ before # file0
    /\ \E i \in Entries : Len(payload.models[i].column_changes) >= 2

MissingModel(u) == FirstIndex(before.doc.models, u.model_name) = 0

Failed ==
    /\ out.exit_code = 1
    /\ ~out.has_response
    /\ out.writes = 0
    /\ file = before

\* C3 as claimed: any entry naming a model that is not in the file makes the
\* invocation fail and leaves the file unmodified.
C3_MissingModelFails ==
    (Finished /\ \E i \in Entries : MissingModel(payload.models[i])) => Failed

\* C3 amended: an entry that names a model that is not in the file and that
\* holds a column change or a model_description key makes the invocation fail
\* with exit code 1, without response, and leaves the file unmodified.
C3_EffectiveMissingModelFails ==
    (Finished /\ \E i \in Entries :
                    Effective(payload.models[i]) /\ MissingModel(payload.models[i]))
        => Failed

\* The invocation failed on a missing model after an earlier entry had
\* changed the document in memory.
C3_Witness ==
    /\ phase = "applied"
    /\ before.exists
    /\ \E i \in Entries : i > 1 /\ Effective(payload.models[i]) /\ MissingModel(payload.models[i])
    /\ out.exit_code = 1
    /\ out.document # before.doc
    /\ file = before

\* C5: a successful invocation writes the file at most once and its response
\* maps every requested model to the columns whose description changed for
\* that model, in request order.
C5_ResponseListsChangedColumns ==
    (Finished /\ out.exit_code = 0) =>
        /\ out.writes <= 1
        /\ \A i \in Entries :
            ResponseOf(payload.models[i].model_name)
                = ChangedColumns(before, payload, payload.models[i].model_name)

\* Column edit j of entry i sets null on a column that, when the edit is
\* applied, is absent from the model or has no description.
NullOnMissingColumn(f, p, i, j) ==
    LET change == p.models[i].column_changes[j]
        doc == MemoryAtChange(f, p, i, j)
        k == FirstIndex(doc.models, p.models[i].model_name)
    IN /\ change.new_description = Null
       /\ k # 0
       /\ LET c == FirstIndex(doc.models[k].columns, change.column_name)
          IN c = 0 \/ doc.models[k].columns[c].description = Absent

\* Entry i sets a null model_description on a model that, when the entry is
\* applied, has no description.
NullOnMissingModelDescription(f, p, i) ==
    LET u == p.models[i]
        doc == MemoryAtEntry(f, p, i)
        k == FirstIndex(doc.models, u.model_name)
    IN /\ u.has_model_description
       /\ u.model_description = Null
       /\ k # 0
       /\ doc.models[k].description = Absent

WithoutChange(p, i, j) ==
    [models |-> [p.models EXCEPT ![i].column_changes = RemoveAt(@, j)]]

WithoutModelDescription(p, i) ==
    [models |-> [p.models EXCEPT ![i].has_model_description = FALSE,
                                 ![i].model_description = Absent]]

\* The descriptions a file holds: per model record its description and, per
\* column name, the description found under that name.
Descriptions(f) ==
    [exists |-> f.exists,
     models |-> [k \in DOMAIN f.doc.models |->
                    [name |-> f.doc.models[k].name,
                     description |-> f.doc.models[k].description,
                     columns |-> [c \in ColumnNames |->
                        LET n == FirstIndex(f.doc.models[k].columns, c)
                        IN IF n = 0 THEN Absent
                           ELSE f.doc.models[k].columns[n].description]]]]

SameOutcome(r) ==
    /\ out.exit_code = r.exit_code
    /\ out.has_response = r.has_response
    /\ out.results = r.results
    /\ out.writes = r.writes

\* C7 as claimed: a null edit of a missing description changes neither the
\* outcome nor the file's content, compared with the payload without it.
C7_NullEditLeavesFile ==
    phase = "applied" =>
        /\ \A i \in Entries : \A j \in DOMAIN payload.models[i].column_changes :
            NullOnMissingColumn(before, payload, i, j) =>
                LET r == apply_updates(before, WithoutChange(payload, i, j))
                IN SameOutcome(r) /\ file = r.file
        /\ \A i \in Entries :
            NullOnMissingModelDescription(before, payload, i) =>
                LET r == apply_updates(before, WithoutModelDescription(payload, i))
                IN SameOutcome(r) /\ file = r.file

\* C7 amended: a null edit of a missing description causes no write and is
\* not reported: exit code, response and write are those of the payload
\* without the edit, and so is every description of the file; the written
\* file may differ from it in bare column records and `columns` keys.
C7_NullEditLeavesDescriptions ==
    phase = "applied" =>
        /\ \A i \in Entries : \A j \in DOMAIN payload.models[i].column_changes :
            NullOnMissingColumn(before, payload, i, j) =>
                LET r == apply_updates(before, WithoutChange(payload, i, j))
                IN SameOutcome(r) /\ Descriptions(file) = Descriptions(r.file)
        /\ \A i \in Entries :
            NullOnMissingModelDescription(before, payload, i) =>
                LET r == apply_updates(before, WithoutModelDescription(payload, i))
                IN SameOutcome(r) /\ Descriptions(file) = Descriptions(r.file)

\* A null edit of a column that is not in the model, in an invocation that
\* wrote the file because of another edit.
C7_Witness ==
    /\ phase = "applied"
    /\ out.writes = 1
    /\ \E i \in Entries : \E j \in DOMAIN payload.models[i].column_changes :
        /\ NullOnMissingColumn(before, payload, i, j)
        /\ file # apply_updates(before, WithoutChange(payload, i, j)).file

\* C9 as claimed: with a missing file every payload fails, without response
\* and without creating the file.
C9_MissingFileFails ==
    (Finished /\ ~before.exists) =>
        (out.exit_code = 1 /\ ~out.has_response /\ ~file.exists)

\* C9 amended: with a missing file every payload that holds at least one
\* model entry fails with exit code 1, without response and without creating
\* the file.
C9_MissingFileFailsNonEmptyBatch ==
    (Finished /\ ~before.exists /\ payload.models # <<>>) =>
        (out.exit_code = 1 /\ ~out.has_response /\ out.writes = 0 /\ ~file.exists)

\* A non-empty batch was run on a missing file.
C9_Witness ==
    /\ phase = "applied"
    /\ ~before.exists
    /\ payload.models # <<>>
    /\ out.exit_code = 1

(***************************************************************************)
(* ruamel_normalize_layout.py: the script run on a request and then on the *)
(* reverse request; the process may be killed before, inside, between and  *)
(* after its two file operations, inside and after its output.             *)
(***************************************************************************)
LayoutInit ==
    /\ disk \in LayoutDisks
    /\ request \in Requests
    /\ LayoutCanonical(request)
    /\ pc = "start"
    /\ call = 1
    /\ memory = NoMemory
    /\ started = disk
    /\ disk0 = disk
    /\ result = NoResult
    /\ UpdateIdle

\* main() up to the first file operation: the checks of
\* normalize_to_directory, the loads, remove_model and upsert_model.  A
\* raised LayoutError and the early `return False` lead to the end of main().
Normalize ==
    /\ pc = "start"
    /\ LET r == normalize_to_directory(disk, request)
       IN /\ memory' = [status |-> r.status, source_doc |-> r.source_doc,
                        target_doc |-> r.target_doc]
          /\ pc' = IF r.status = "move" THEN "first_op" ELSE "respond"
    /\ UNCHANGED <<disk, request, call, started, disk0, result>>
    /\ UNCHANGED updateVars

\* write_or_remove(current_path, yaml, source_doc) up to the unlink or the
\* open("w").
FirstOp ==
    /\ pc = "first_op"
    /\ LET op == FileOps(request, memory.source_doc, memory.target_doc)[1]
       IN /\ disk' = BeginOp(disk, op)
          /\ pc' = IF Dumps(op) THEN "first_dump" ELSE "second_op"
    /\ UNCHANGED <<request, call, memory, started, disk0, result>>
    /\ UNCHANGED updateVars

\* yaml.dump(source_doc, handle) and the close of the file.
FirstDump ==
    /\ pc = "first_dump"
    /\ disk' = ApplyOp(disk, FileOps(request, memory.source_doc, memory.target_doc)[1])
    /\ pc' = "second_op"
    /\ UNCHANGED <<request, call, memory, started, disk0, result>>
    /\ UNCHANGED updateVars

\* write_or_remove(expected_path, yaml, target_doc) up to the unlink or the
\* open("w").
SecondOp ==
    /\ pc = "second_op"
    /\ LET op == FileOps(request, memory.source_doc, memory.target_doc)[2]
       IN /\ disk' = BeginOp(disk, op)
          /\ pc' = IF Dumps(op) THEN "second_dump" ELSE "respond"
    /\ UNCHANGED <<request, call, memory, started, disk0, result>>
    /\ UNCHANGED updateVars

\* yaml.dump(target_doc, handle) and the close of the file.
SecondDump ==
    /\ pc = "second_dump"
    /\ disk' = ApplyOp(disk, FileOps(request, memory.source_doc, memory.target_doc)[2])
    /\ pc' = "respond"
    /\ UNCHANGED <<request, call, memory, started, disk0, result>>
    /\ UNCHANGED updateVars

\* `return True`, json.dump of the response and exit code 0.
Mutated == [NoResult EXCEPT !.exit_code = 0, !.has_response = TRUE, !.mutated = TRUE]

\* `return False`, json.dump of the response and exit code 0.
NotMutated == [NoResult EXCEPT !.exit_code = 0, !.has_response = TRUE]

\* The LayoutError printed on stderr and exit code 1.
Failure == [NoResult EXCEPT !.exit_code = 1, !.has_error = TRUE]

\* What main() ends with, by the outcome of normalize_to_directory.
Response(status) ==
    IF status = "error" THEN Failure
    ELSE IF status = "same" THEN NotMutated
    ELSE Mutated

\* The output of main() begins: the first write of print(str(exc),
\* file=sys.stderr), or of json.dump({"mutated": mutated}, sys.stdout), which
\* writes the response piece by piece.  What is written so far is not a
\* whole message, and no value of `mutated` can be read from it.
Respond ==
    /\ pc = "respond"
    /\ result' = IF memory.status = "error"
                 THEN [NoResult EXCEPT !.partial_error = TRUE]
                 ELSE [NoResult EXCEPT !.partial_response = TRUE]
    /\ pc' = "responding"
    /\ UNCHANGED <<disk, request, call, memory, started, disk0>>
    /\ UNCHANGED updateVars

\* The last write of the output: the whole message is out.  The process has
\* not exited.
Responded ==
    /\ pc = "responding"
    /\ result' = [Response(memory.status) EXCEPT !.exit_code = NoResult.exit_code]
    /\ pc' = "exit"
    /\ UNCHANGED <<disk, request, call, memory, started, disk0>>
    /\ UNCHANGED updateVars

\* `return 1` / `return 0` of main() and sys.exit(main()).
Exit ==
    /\ pc = "exit"
    /\ result' = Response(memory.status)
    /\ pc' = "done"
    /\ UNCHANGED <<disk, request, call, memory, started, disk0>>
    /\ UNCHANGED updateVars

\* The process is killed before a file operation, after the last one and
\* before its output, inside its output, or after its output and before its
\* exit.
Stop ==
    /\ pc \in {"first_op", "second_op", "respond", "responding", "exit"}
    /\ pc' = IF pc = "first_op" THEN "stopped_before"
             ELSE IF pc = "second_op" THEN "stopped_between"
             ELSE IF pc = "respond" THEN "stopped_after"
             ELSE IF pc = "responding" THEN "stopped_in_response"
             ELSE "stopped_at_exit"
    /\ UNCHANGED <<disk, request, call, memory, started, disk0, result>>
    /\ UNCHANGED updateVars

\* The process is killed inside a file operation, after open("w") and before
\* the dumped text is all in the file.
StopInDump ==
    /\ pc \in {"first_dump", "second_dump"}
    /\ LET ops == FileOps(request, memory.source_doc, memory.target_doc)
       IN disk' \in Interrupted(disk, IF pc = "first_dump" THEN ops[1] ELSE ops[2])
    /\ pc' = IF pc = "first_dump" THEN "stopped_in_first" ELSE "stopped_in_second"
    /\ UNCHANGED <<request, call, memory, started, disk0, result>>
    /\ UNCHANGED updateVars

\* The next invocation: the same model relocated back.
Again ==
    /\ pc = "done"
    /\ call = 1
    /\ request' = Reverse(request)
    /\ call' = 2
    /\ pc' = "start"
    /\ started' = disk
    /\ memory' = NoMemory
    /\ result' = NoResult
    /\ UNCHANGED <<disk, disk0>>
    /\ UNCHANGED updateVars

LayoutNext ==
    \/ Normalize \/ FirstOp \/ FirstDump \/ SecondOp \/ SecondDump
    \/ Respond \/ Responded \/ Exit
    \/ Stop \/ StopInDump \/ Again

LayoutSpec == LayoutInit /\ [][LayoutNext]_vars

(***************************************************************************)
(* Properties of ruamel_normalize_layout.py.  They speak of what is found  *)
(* at the two paths of the request.                                        *)
(***************************************************************************)
InFile(f, name) == f.exists /\ ~f.torn /\ FirstIndex(f.doc.models, name) # 0

Count(models, name) == Cardinality({i \in DOMAIN models : models[i].name = name})

\* The invocation relocates: the current file exists and holds the model,
\* and the two path strings differ.
Relocatable(d, req) ==
    /\ req.current_patch # req.expected_patch
    /\ InFile(At(d, req.current_patch), req.model_name)

\* The two paths lead to one file: two spellings of a name, a symbolic link
\* and its target, or two hard links.
SameFile(d, req) ==
    /\ exists(d, req.current_patch)
    /\ Resolve(d, req.current_patch) = Resolve(d, req.expected_patch)

\* What C4 says of a finished relocation: the record is gone from the current
\* file (an emptied `models` key dropped), that file is deleted exactly when
\* nothing is left in it and rewritten otherwise, the record is in the
\* expected file, in the place of a same-named record or else last, the other
\* records being untouched, and the result is mutated = true.
Moved ==
    LET cur == request.current_patch
        exp == request.expected_patch
        src == At(started, cur).doc
        i == FirstIndex(src.models, request.model_name)
        rest == RemoveAt(src.models, i)
        tgt == At(started, exp).doc
        j == FirstIndex(tgt.models, request.model_name)
        nothingLeft == rest = <<>> /\ src.sources \in {Absent, Empty} /\ ~src.other
    IN /\ result = Mutated
       /\ At(disk, cur).exists <=> ~nothingLeft
       /\ At(disk, cur).exists =>
            At(disk, cur) = [exists |-> TRUE, torn |-> FALSE,
                             doc |-> [hasModels |-> rest # <<>>, models |-> rest,
                                      sources |-> src.sources, other |-> src.other]]
       /\ At(disk, exp) =
            [exists |-> TRUE, torn |-> FALSE,
             doc |-> [hasModels |-> TRUE,
                      models |-> IF j # 0
                                 THEN [tgt.models EXCEPT ![j] = src.models[i]]
                                 ELSE Append(tgt.models, src.models[i]),
                      sources |-> tgt.sources, other |-> tgt.other]]

RoundTripDone ==
    /\ call = 2
    /\ pc = "done"
    /\ Relocatable(disk0, Reverse(request))
    /\ ~SameFile(disk0, Reverse(request))

Untouched ==
    /\ disk = started
    /\ pc \in {"start", "respond", "stopped_after", "responding", "stopped_in_response",
              "exit", "stopped_at_exit", "done"}

\* C8 as claimed: a missing current file, or a current file without the
\* model, makes the invocation fail and leaves both files alone.
C8_NotFoundFails ==
    (pc = "done" /\ ~InFile(At(started, request.current_patch), request.model_name)) =>
        (result.exit_code = 1 /\ ~result.has_response /\ disk = started)

\* C8 amended: when the current file is missing, or when the current path
\* differs from the expected path and the current file does not hold the
\* model, no file operation is reached, no part of a response is ever written, and the
\* invocation ends with the error message and exit code 1; when the current
\* path equals the expected path and exists, no file operation is reached
\* either and the invocation ends with the response mutated = false and exit
\* code 0, whether the file holds the model or not.
C8_NotFoundFailsUnlessSamePath ==
    /\ (\/ ~exists(started, request.current_patch)
        \/ /\ request.current_patch # request.expected_patch
           /\ ~InFile(At(started, request.current_patch), request.model_name)) =>
            /\ Untouched
            /\ ~result.has_response /\ ~result.partial_response
            /\ result.exit_code \in {NoResult.exit_code, 1}
            /\ pc = "done" => result = Failure
    /\ (/\ exists(started, request.current_patch)
        /\ request.current_patch = request.expected_patch) =>
            /\ Untouched
            /\ ~result.has_error /\ ~result.partial_error
            /\ result.exit_code \in {NoResult.exit_code, 0}
            /\ pc = "done" => result = NotMutated

\* A failed invocation: both files exist, the current one lacks the model.
C8_Witness ==
    /\ pc = "done"
    /\ request.current_patch # request.expected_patch
    /\ exists(started, request.current_patch)
    /\ exists(started, request.expected_patch)
    /\ ~InFile(At(started, request.current_patch), request.model_name)
    /\ result.exit_code = 1

\* The disk left by a process that stops between the two file operations.
StoppedBetween(d, req) ==
    LET r == normalize_to_directory(d, req)
    IN ApplyOp(d, FileOps(req, r.source_doc, r.target_doc)[1])

OnlyInCurrent(d, req) ==
    /\ Relocatable(d, req)
    /\ Count(At(d, req.current_patch).doc.models, req.model_name) = 1
    /\ ~InFile(At(d, req.expected_patch), req.model_name)

Duplicated(d, req) ==
    /\ InFile(At(d, req.current_patch), req.model_name)
    /\ InFile(At(d, req.expected_patch), req.model_name)

Missing(d, req) ==
    /\ ~InFile(At(d, req.current_patch), req.model_name)
    /\ ~InFile(At(d, req.expected_patch), req.model_name)

\* C10 as claimed: a stop between the two file operations can leave a model
\* that was only in the current file duplicated, and can leave it missing.
C10_StopLeavesDuplicatedOrMissing ==
    (pc = "stopped_between" /\ OnlyInCurrent(started, request)) =>
    /\ \E d \in LayoutDisks, req \in Requests :
            OnlyInCurrent(d, req) /\ Duplicated(StoppedBetween(d, req), req)
    /\ \E d \in LayoutDisks, req \in Requests :
            OnlyInCurrent(d, req) /\ Missing(StoppedBetween(d, req), req)

\* C10 amended: the file operation on the current path comes first, so a
\* stop between the two leaves a model that was only in the current file
\* missing (at neither path) and never duplicated.
C10_StopLeavesMissing ==
    (pc = "stopped_between" /\ OnlyInCurrent(started, request)) =>
        (Missing(disk, request) /\ ~Duplicated(disk, request))

\* The process stopped between the two file operations of a relocation into
\* an existing file.
C10_Witness ==
    /\ pc = "stopped_between"
    /\ OnlyInCurrent(started, request)
    /\ exists(started, request.expected_patch)
    /\ disk # started

====
